---- MODULE Spec2Model ----
(***************************************************************************)
(* The production build described by code/webpack.prod.config.js: the      *)
(* configuration object (entry, output, loaders, postcss, plugins) and the *)
(* run of the bundler it configures, from loading the configuration to     *)
(* writing the output directory BUILD.                                     *)
(*                                                                         *)
(* The configuration is declarative.  What each configured plugin does     *)
(* when the bundler runs it is taken from the plugin's documented          *)
(* contract; each step below names the configuration lines that install    *)
(* it.                                                                     *)
(***************************************************************************)
EXTENDS Integers, FiniteSets, Sequences, TLC

(***************************************************************************)
(* Bounds of the model.                                                    *)
(***************************************************************************)
\* source files carry a content version 0..MaxVer
MaxVer == 1

Versions == 0..MaxVer

(***************************************************************************)
(* The source tree.                                                        *)
(***************************************************************************)
\* names a package.json may declare under "dependencies"
Packages == {"react", "left-pad"}

\* a path below app/public: directory segments and a base name
PublicPaths ==
  { [dir |-> << >>,              base |-> "favicon.ico"],
    [dir |-> << >>,              base |-> ".DS_Store"],
    [dir |-> <<"img">>,          base |-> "logo.png"],
    [dir |-> <<"img", "icons">>, base |-> ".DS_Store"] }

\* what can be wrong with the source tree of one run
Faults ==
  { "none", "noManifest", "noApp", "noStyle", "noVendorModule",
    "jsSyntax", "cssSyntax", "minify" }

VARIABLES
  ver,        \* content version of app/index.jsx, app/style.css, node_modules
  deps,       \* key set of package.json's dependencies
  pkg,        \* the array PACKAGE as the configuration module computed it
  appCss,     \* TRUE when the application code imports app/style.css itself
  public,     \* the files present below app/public
  fault,      \* the defect of the source tree in the current run
  dirExists,  \* BUILD exists on disk
  disk,       \* the files in BUILD
  pc,         \* position of the run
  pi,         \* number of plugins of the list already applied
  hooks,      \* plugins that registered on the compiler, in order
  eh,         \* number of emit hooks already run
  chunks,     \* chunk name -> set of module tokens
  assets,     \* compilation.assets: the files staged for emit
  errors,     \* compilation.errors
  iolog,      \* the file operations of this run on BUILD, in order
  phases,     \* the phases of this run that are over, in order
  cleanSaw,   \* what the clean of this run found: "absent", "present", "none"
  styles,     \* the text of each stylesheet module of this run, as processed so far
  last        \* history: source and bundles of the last two builds without errors

vars ==
  << ver, deps, pkg, appCss, public, fault, dirExists, disk, pc, pi, hooks, eh,
     chunks, assets, errors, iolog, phases, cleanSaw, styles, last >>

(***************************************************************************)
(* Values.                                                                 *)
(***************************************************************************)
\* a piece of file content: module m at version v in form k
Token(m, v, k) == [m |-> m, v |-> v, k |-> k]

\* the digest that fills a [chunkhash] placeholder: it is taken over the
\* chunk's name and the modules the chunk holds when it is sealed, and is
\* collision-free on the bounded contents of the model
ChunkHash(name, mods) == [chunk |-> name, of |-> mods]

\* the hash part of a file name that has none
NoHash == [chunk |-> "", of |-> {}]

FileName(dir, base, hash, ext) ==
  [dir |-> dir, base |-> base, hash |-> hash, ext |-> ext]

File(name, content, refs) == [name |-> name, content |-> content, refs |-> refs]

IsScript(f) == f.name.ext = "js"
IsStylesheet(f) == f.name.ext = "css"
IsBundle(f) == IsScript(f) \/ IsStylesheet(f)
IsHtml(f) == f.name.ext = "html"
IsStatic(f) == f.name.ext = ""

Names(fs) == { f.name : f \in fs }

(***************************************************************************)
(* The configuration object.                                               *)
(***************************************************************************)
\* require('./package.json'), the two fields that name packages
dependencies == [p \in deps |-> "*"]
devDependencies == [p \in {"webpack"} |-> "*"]

\* Object.keys: the own keys of an object, each once, as an array
RECURSIVE KeysFrom(_)
KeysFrom(S) ==
  IF S = {} THEN << >>
  ELSE LET k == CHOOSE k \in S : TRUE IN << k >> \o KeysFrom(S \ {k})

ObjectKeys(obj) == KeysFrom(DOMAIN obj)

\* the keys of both fields of the manifest
ManifestKeysAll == ObjectKeys(dependencies) \o ObjectKeys(devDependencies)

\* PACKAGE = Object.keys(require('./package.json').dependencies)
ManifestKeys == ObjectKeys(dependencies)

\* the names in the array PACKAGE of the loaded configuration
PACKAGE == { pkg[i] : i \in 1..Len(pkg) }

\* entry: bundle name -> the modules it requests
entry == [app |-> {"app"}, style |-> {"style.css"}, vendor |-> PACKAGE]

EntryNames == DOMAIN entry

\* filename: '[name].js', the hash placeholder left out
OutputFilenameNoHash(name, hash) == FileName(<< >>, name, ChunkHash(name, {}), "js")

\* output.filename: '[name].[chunkhash].js'
OutputFilename(name, hash) == FileName(<< >>, name, hash, "js")

\* new ExtractTextPlugin('[name].[chunkhash].css')
ExtractFilename(name, hash) == FileName(<< >>, name, hash, "css")

\* the list with the page generator ahead of the static copy
pluginsHtmlFirst ==
  << "DefinePlugin", "CleanPlugin", "HtmlWebpackPlugin", "CopyWebpackPlugin",
     "ExtractTextPlugin", "CommonsChunkPlugin", "DefinePlugin", "UglifyJsPlugin" >>

\* the plugins array with the CleanPlugin line left out
pluginsNoClean ==
  << "DefinePlugin", "CopyWebpackPlugin", "HtmlWebpackPlugin",
     "ExtractTextPlugin", "CommonsChunkPlugin", "DefinePlugin", "UglifyJsPlugin" >>

\* the plugins array, in the order it is written
plugins ==
  << "DefinePlugin", "CleanPlugin", "CopyWebpackPlugin", "HtmlWebpackPlugin",
     "ExtractTextPlugin", "CommonsChunkPlugin", "DefinePlugin", "UglifyJsPlugin" >>

\* CommonsChunkPlugin({ names: ['vendor'] }): no manifest chunk
CommonsVendorOnly == <<"vendor">>

\* CommonsChunkPlugin({ names: ['vendor', 'manifest'] })
CommonsNames == <<"vendor", "manifest">>

\* CopyWebpackPlugin's ignore list
ignore == {".DS_Store"}

\* the pattern matched against the whole path relative to PUBLIC
shouldIgnoreWholePath(p) == p.dir = << >> /\ p.base \in ignore

\* a pattern without a slash is matched against the base name of the path
shouldIgnore(p) == p.base \in ignore

\* only the script files injected, the stylesheet link left out
HtmlInjectedScripts(fs) == { f.name : f \in { g \in fs : IsScript(g) } }

\* HtmlWebpackPlugin with no chunks option: every chunk's files are injected
HtmlInjected(fs) == { f.name : f \in { g \in fs : IsBundle(g) } }

\* the should-emit hook: no plugin of the list vetoes the emit of a
\* compilation that has errors (NoErrorsPlugin would), and bail is not set
shouldEmit == \A i \in 1..Len(plugins) : plugins[i] # "NoErrorsPlugin"

\* the loaders: babel for scripts under APP, the extracting loader for
\* stylesheets under APP, none for what lies outside APP
LoaderFor(m) ==
  CASE m = "app"       -> "babel"
    [] m = "style.css" -> "extract"
    [] OTHER           -> "none"

(***************************************************************************)
(* The stylesheet chain.                                                   *)
(***************************************************************************)
\* a rule of a stylesheet: the file it was written in, whether its macros
\* are expanded and whether it carries the vendor prefixes
Rule(f, e, p) == [file |-> f, expanded |-> e, prefixed |-> p]

\* a stylesheet under APP as written: its own rules and an import of a partial
StyleSource(m) ==
  [rules |-> {Rule(m, FALSE, FALSE)}, imports |-> {"partial.css"}, steps |-> << >>]

NoStyles == [m \in {} |-> StyleSource(m)]

\* the plugin list with the prefixer ahead of the import inliner
processPostcssPrefixFirst == << "autoprefixer", "postcss-easy-import", "precss" >>

\* processPostcss: the plugins postcss runs, first to last
processPostcss == << "postcss-easy-import", "precss", "autoprefixer" >>

\* one postcss plugin on a stylesheet text
PostcssPlugin(name, t) ==
  CASE name = "postcss-easy-import" ->
         [rules   |-> t.rules \cup { Rule(i, FALSE, FALSE) : i \in t.imports },
          imports |-> {},
          steps   |-> Append(t.steps, name)]
    [] name = "precss" ->
         [rules   |-> { Rule(r.file, TRUE, r.prefixed) : r \in t.rules },
          imports |-> t.imports,
          steps   |-> Append(t.steps, name)]
    [] OTHER ->
         [rules   |-> { Rule(r.file, r.expanded, TRUE) : r \in t.rules },
          imports |-> t.imports,
          steps   |-> Append(t.steps, name)]

\* postcss-loader: the plugins of processPostcss from the i-th on
RECURSIVE RunPostcss(_, _)
RunPostcss(t, i) ==
  IF i > Len(processPostcss) THEN t
  ELSE RunPostcss(PostcssPlugin(processPostcss[i], t), i + 1)

\* 'css!postcss', the loaders the extraction wraps
cssLoaders == << "css", "postcss" >>

\* a loader chain runs from its last loader to its first
RECURSIVE RunLoaders(_, _)
RunLoaders(t, i) ==
  IF i = 0 THEN t
  ELSE RunLoaders(
         IF cssLoaders[i] = "postcss"
           THEN RunPostcss(t, 1)
           ELSE [rules |-> t.rules, imports |-> t.imports,
                 steps |-> Append(t.steps, cssLoaders[i])],
         i - 1)

\* ExtractTextPlugin.extract: the text the loaders produced is taken out of
\* the module for the stylesheet file; the 'style' loader is not applied
Extract(t) ==
  [rules |-> t.rules, imports |-> t.imports, steps |-> Append(t.steps, "extract")]

(***************************************************************************)
(* The source tree as the run sees it.                                     *)
(***************************************************************************)
\* the files a fault removes from the tree
Missing ==
  CASE fault = "noApp"          -> {"app"}
    [] fault = "noStyle"        -> {"style.css"}
    [] fault = "noVendorModule" -> {"left-pad"}
    [] OTHER                    -> {}

\* what the application code imports
AppImportsIf(css) ==
  ({"react"} \cap deps) \cup (IF css THEN {"style.css"} ELSE {})

AppImports == AppImportsIf(appCss)

\* the modules requested from an entry, imports followed
Requests(e) ==
  IF e = "app" /\ "app" \notin Missing
    THEN entry[e] \cup AppImports
    ELSE entry[e]

VersionOf(m) ==
  CASE m = "app"       -> ver.app
    [] m = "style.css" -> ver.style
    [] OTHER           -> ver.vendor

\* a module after its loaders ran; a loader that fails leaves an error stub
BuildModule(m) ==
  CASE LoaderFor(m) = "babel" ->
         IF fault = "jsSyntax" THEN Token(m, VersionOf(m), "error")
                               ELSE Token(m, VersionOf(m), "babel")
    [] LoaderFor(m) = "extract" ->
         IF fault = "cssSyntax" THEN Token(m, VersionOf(m), "error")
                                ELSE Token(m, VersionOf(m), "extracted")
    [] OTHER -> Token(m, VersionOf(m), "raw")

\* the bootstrap code an entry chunk carries
Runtime == Token("webpack", 0, "runtime")

Modules(cs, c) == cs[c] \ {Runtime}

Max(a, b) == IF a >= b THEN a ELSE b

(***************************************************************************)
(* CommonsChunkPlugin, one name of its list at a time, followed by the      *)
(* removal of the modules a chunk's parent already holds.                  *)
(***************************************************************************)
CommonsStep(cs, idx) ==
  LET name == CommonsNames[idx]
      used == { c \in DOMAIN cs :
                  /\ Runtime \in cs[c]
                  /\ \A j \in idx..Len(CommonsNames) : CommonsNames[j] # c }
      minChunks == Max(2, Cardinality(used))
      common == { t \in UNION { Modules(cs, c) : c \in used } :
                    Cardinality({ c \in used : t \in cs[c] }) >= minChunks }
      own == IF name \in DOMAIN cs THEN Modules(cs, name) ELSE {}
      moved == own \cup common
  IN  [ c \in DOMAIN cs \cup {name} |->
          IF c = name THEN moved \cup {Runtime}
          ELSE IF c \in used THEN Modules(cs, c) \ moved
          ELSE cs[c] ]

RECURSIVE CommonsFrom(_, _)
CommonsFrom(cs, idx) ==
  IF idx > Len(CommonsNames) THEN cs
  ELSE CommonsFrom(CommonsStep(cs, idx), idx + 1)

Registered(p) == \E i \in 1..Len(hooks) : hooks[i] = p

\* the phase an emit hook carries out
PhaseOf(p) == IF p = "CopyWebpackPlugin" THEN "copy" ELSE "html"

\* BUILD as the clean finds it
Dir == [exists |-> dirExists, files |-> disk]

\* a removal that reports a directory that is not there as an error
CleanDirStrict(d) == [exists |-> FALSE, files |-> {}, failed |-> ~d.exists]

\* CleanPlugin([BUILD]): the directory is removed with all it holds; a
\* directory that is not there is left alone and is no error
CleanDir(d) == [exists |-> FALSE, files |-> {}, failed |-> FALSE]

\* the hooks on the compiler's emit event, in the order they registered
IsEmitHook(p) == p \in {"CopyWebpackPlugin", "HtmlWebpackPlugin"}
EmitHooks == SelectSeq(hooks, IsEmitHook)

(***************************************************************************)
(* Assets.                                                                 *)
(***************************************************************************)
\* the stylesheet text the extracting loader took out of a chunk's modules
CssOf(mods) == { Token(t.m, t.v, "css") : t \in { u \in mods : u.k = "extracted" } }

ScriptAsset(cs, c) ==
  File(OutputFilename(c, ChunkHash(c, cs[c])), cs[c], {})

StyleAsset(cs, c) ==
  File(ExtractFilename(c, ChunkHash(c, cs[c])), CssOf(cs[c]), {})

ChunkAssets(cs) ==
  { ScriptAsset(cs, c) : c \in DOMAIN cs }
    \cup (IF Registered("ExtractTextPlugin")
            THEN { StyleAsset(cs, c) : c \in { d \in DOMAIN cs : CssOf(cs[d]) # {} } }
            ELSE {})

Minified == Token("uglify", 0, "min")

\* UglifyJsPlugin rewrites every script asset; one it cannot parse is left
\* as it is and reported
Uglify(f) ==
  IF IsScript(f) /\ ~(fault = "minify" /\ f.name.base = "app")
    THEN File(f.name, f.content \cup {Minified}, f.refs)
    ELSE f

\* CopyWebpackPlugin({ from: PUBLIC, to: BUILD }): relative paths are kept
CopyAssets ==
  { File(FileName(p.dir, p.base, NoHash, ""), {Token(p.base, 0, "copy")}, {}) :
      p \in { q \in public : ~shouldIgnore(q) } }

HtmlAsset(fs) ==
  File(FileName(<< >>, "index", NoHash, "html"),
       {Token("index_default.html", 0, "collapsed")}, HtmlInjected(fs))

\* history: what a build without errors was made from and what it produced
NoBuild == [valid |-> FALSE, ver |-> [app |-> 0, style |-> 0, vendor |-> 0],
            appCss |-> FALSE, out |-> {}]

ThisBuild == [valid |-> TRUE, ver |-> ver, appCss |-> appCss,
              out |-> { f \in disk : IsBundle(f) }]

(***************************************************************************)
(* Initial states: nothing has been built yet.                             *)
(***************************************************************************)
InitRun ==
  /\ fault = "none"
  /\ dirExists = FALSE
  /\ disk = {}
  /\ pc = "idle"
  /\ pkg = << >>
  /\ pi = 0
  /\ hooks = << >>
  /\ eh = 0
  /\ chunks = << >>
  /\ assets = {}
  /\ errors = {}
  /\ iolog = << >>
  /\ phases = << >>
  /\ cleanSaw = "none"
  /\ styles = NoStyles
  /\ last = [prev |-> NoBuild, cur |-> NoBuild]

\* any source tree, built again and again as it is
Init ==
  /\ ver = [app |-> 0, style |-> 0, vendor |-> 0]
  /\ deps \in (SUBSET Packages) \ {{}}
  /\ appCss \in BOOLEAN
  /\ public \in SUBSET PublicPaths
  /\ InitRun

\* a source tree whose manifest is rewritten while it is built
InitManifest ==
  /\ ver = [app |-> 0, style |-> 0, vendor |-> 0]
  /\ deps \in (SUBSET Packages) \ {{}}
  /\ appCss = FALSE
  /\ public = {}
  /\ InitRun

\* a source tree whose files are edited between the builds
InitRebuild ==
  /\ ver = [app |-> 0, style |-> 0, vendor |-> 0]
  /\ deps = Packages
  /\ appCss = FALSE
  /\ public = PublicPaths
  /\ InitRun

Resting == pc \in {"idle", "done", "failed"}

run == << pkg, pc, pi, hooks, eh, chunks, assets, errors, iolog, phases, cleanSaw, styles >>
tree == << ver, deps, appCss, public >>

(***************************************************************************)
(* Edits of the source tree between two runs.                              *)
(***************************************************************************)
EditSource(m) ==
  /\ Resting
  /\ \E v \in Versions \ {ver[m]} : ver' = [ver EXCEPT ![m] = v]
  /\ UNCHANGED << deps, appCss, public, fault, dirExists, disk, run, last >>

ToggleStyleImport ==
  /\ Resting
  /\ appCss' = ~appCss
  /\ UNCHANGED << ver, deps, public, fault, dirExists, disk, run, last >>

\* package.json is a file of the tree: it can be rewritten at any moment,
\* a run in progress or not
EditManifest ==
  /\ \E d \in (SUBSET Packages) \ {{}, deps} : deps' = d
  /\ UNCHANGED << ver, appCss, public, fault, dirExists, disk, run, last >>

(***************************************************************************)
(* The run.                                                                *)
(***************************************************************************)
\* the configuration module is evaluated: the manifest is read for its keys,
\* the paths are joined and the plugins are constructed
LoadConfig(F) ==
  /\ Resting
  /\ \E f \in F :
       /\ fault' = f
       /\ IF f = "noManifest"
            THEN /\ pc' = "failed"
                 /\ pkg' = << >>
                 /\ errors' = {"ConfigurationError"}
            ELSE /\ pc' = "apply"
                 /\ pkg' = ManifestKeys
                 /\ errors' = {}
  /\ pi' = 0
  /\ hooks' = << >>
  /\ eh' = 0
  /\ chunks' = << >>
  /\ assets' = {}
  /\ iolog' = << >>
  /\ phases' = << >>
  /\ cleanSaw' = "none"
  /\ styles' = NoStyles
  /\ last' = [prev |-> IF last.cur.valid THEN last.cur ELSE last.prev, cur |-> NoBuild]
  /\ UNCHANGED << tree, dirExists, disk >>

\* the compiler applies the plugins in list order; CleanPlugin removes BUILD
\* then and there, the others register on the compiler's events
ApplyPlugin ==
  /\ pc = "apply"
  /\ pi < Len(plugins)
  /\ pi' = pi + 1
  /\ IF plugins[pi + 1] = "CleanPlugin"
       THEN /\ disk' = CleanDir(Dir).files
            /\ dirExists' = CleanDir(Dir).exists
            /\ errors' = errors \cup (IF CleanDir(Dir).failed THEN {"FilesystemError"} ELSE {})
            /\ iolog' = Append(iolog, "clean")
            /\ phases' = Append(phases, "clean")
            /\ cleanSaw' = IF dirExists THEN "present" ELSE "absent"
            /\ hooks' = hooks
       ELSE /\ hooks' = Append(hooks, plugins[pi + 1])
            /\ UNCHANGED << disk, dirExists, errors, iolog, phases, cleanSaw >>
  /\ pc' = IF pi + 1 = Len(plugins) THEN "make" ELSE "apply"
  /\ UNCHANGED << tree, pkg, styles, fault, eh, chunks, assets, last >>

\* the entries are resolved and every module goes through its loaders
Make ==
  /\ pc = "make"
  /\ chunks' = [ e \in EntryNames |->
                   { BuildModule(m) : m \in Requests(e) \ Missing } \cup {Runtime} ]
  /\ errors' = errors
       \cup (IF \E e \in EntryNames : Requests(e) \cap Missing # {}
               THEN {"ModuleNotFoundError"} ELSE {})
       \cup (IF \E e \in EntryNames : \E m \in Requests(e) \ Missing :
                    BuildModule(m).k = "error"
               THEN {"ModuleBuildError"} ELSE {})
  /\ phases' = phases \o <<"transform">>
                 \o (IF Registered("DefinePlugin") THEN <<"inject">> ELSE << >>)
  /\ styles' = [ m \in { n \in UNION { Requests(e) \ Missing : e \in EntryNames } :
                              BuildModule(n).k = "extracted" } |->
                   RunLoaders(StyleSource(m), Len(cssLoaders)) ]
  /\ pc' = "split"
  /\ UNCHANGED << tree, pkg, fault, dirExists, disk, pi, hooks, eh, assets, iolog, cleanSaw, last >>

\* the chunks are optimised
Split ==
  /\ pc = "split"
  /\ chunks' = IF Registered("CommonsChunkPlugin") THEN CommonsFrom(chunks, 1) ELSE chunks
  /\ phases' = IF Registered("CommonsChunkPlugin") THEN Append(phases, "split") ELSE phases
  /\ pc' = "render"
  /\ UNCHANGED << tree, pkg, styles, fault, dirExists, disk, pi, hooks, eh, assets, errors, iolog, cleanSaw, last >>

\* the chunks are hashed and rendered to named assets
Render ==
  /\ pc = "render"
  /\ assets' = ChunkAssets(chunks)
  /\ styles' = IF Registered("ExtractTextPlugin")
                 THEN [ m \in DOMAIN styles |-> Extract(styles[m]) ]
                 ELSE styles
  /\ pc' = "minify"
  /\ UNCHANGED << tree, pkg, fault, dirExists, disk, pi, hooks, eh, chunks, errors, iolog, phases,
                  cleanSaw, last >>

Minify ==
  /\ pc = "minify"
  /\ IF Registered("UglifyJsPlugin")
       THEN /\ assets' = { Uglify(f) : f \in assets }
            /\ errors' = errors \cup (IF fault = "minify" THEN {"UglifyError"} ELSE {})
            /\ phases' = Append(phases, "minify")
       ELSE UNCHANGED << assets, errors, phases >>
  /\ pc' = IF shouldEmit \/ errors' = {} THEN "emit" ELSE "done"
  /\ UNCHANGED << tree, pkg, styles, fault, dirExists, disk, pi, hooks, eh, chunks, iolog, cleanSaw, last >>

\* the emit event: each registered plugin adds its files to the assets
RunEmitHook ==
  /\ pc = "emit"
  /\ eh < Len(EmitHooks)
  /\ eh' = eh + 1
  /\ assets' = assets \cup
       (IF EmitHooks[eh + 1] = "CopyWebpackPlugin" THEN CopyAssets ELSE {HtmlAsset(assets)})
  /\ phases' = Append(phases, PhaseOf(EmitHooks[eh + 1]))
  /\ pc' = IF eh + 1 = Len(EmitHooks) THEN "write" ELSE "emit"
  /\ UNCHANGED << tree, pkg, styles, fault, dirExists, disk, pi, hooks, chunks, errors, iolog, cleanSaw, last >>

\* the assets are written to BUILD, which is created when it is not there
WriteAsset ==
  /\ pc = "write"
  /\ \E f \in assets \ disk :
       disk' = { g \in disk : g.name # f.name } \cup {f}
  /\ dirExists' = TRUE
  /\ iolog' = Append(iolog, "write")
  /\ UNCHANGED << tree, pkg, styles, fault, pc, pi, hooks, eh, chunks, assets, errors, phases, cleanSaw, last >>

Finish ==
  /\ pc = "write"
  /\ assets \subseteq disk
  /\ pc' = "done"
  /\ fault' = "none"
  /\ last' = IF errors = {} THEN [last EXCEPT !.cur = ThisBuild] ELSE last
  /\ UNCHANGED << tree, pkg, styles, dirExists, disk, pi, hooks, eh, chunks, assets, errors, iolog, phases,
                  cleanSaw >>

Build ==
  \/ ApplyPlugin
  \/ Make
  \/ Split
  \/ Render
  \/ Minify
  \/ RunEmitHook
  \/ WriteAsset
  \/ Finish

Next ==
  \/ LoadConfig(Faults)
  \/ Build

Spec == Init /\ [][Next]_vars

NextRebuild ==
  \/ \E m \in {"app", "style", "vendor"} : EditSource(m)
  \/ ToggleStyleImport
  \/ LoadConfig({"none"})
  \/ Build

SpecRebuild == InitRebuild /\ [][NextRebuild]_vars

NextManifest ==
  \/ EditManifest
  \/ LoadConfig({"none", "noManifest"})
  \/ Build

SpecManifest == InitManifest /\ [][NextManifest]_vars

TypeOK ==
  /\ pc \in {"idle", "apply", "make", "split", "render", "minify", "emit", "write", "done", "failed"}
  /\ fault \in Faults
  /\ pi \in 0..Len(plugins)
  /\ eh \in 0..Len(EmitHooks)
  /\ deps \subseteq Packages
  /\ PACKAGE \subseteq Packages
  /\ public \subseteq PublicPaths
  /\ \A m \in DOMAIN ver : ver[m] \in Versions
  /\ \A i \in 1..Len(iolog) : iolog[i] \in {"clean", "write"}
  /\ dirExists \/ disk = {}
  /\ cleanSaw \in {"none", "absent", "present"}

(***************************************************************************)
(* Properties.                                                             *)
(***************************************************************************)
Succeeded == pc = "done" /\ errors = {}

Scripts(fs) == { f \in fs : IsScript(f) }
Stylesheets(fs) == { f \in fs : IsStylesheet(f) }
Htmls(fs) == { f \in fs : IsHtml(f) }
Statics(fs) == { f \in fs : IsStatic(f) }

\* one file per name, and every script and stylesheet carries a hash
WellNamed(fs) ==
  /\ \A f, g \in fs : f.name = g.name => f = g
  /\ \A f \in fs : IsBundle(f) => f.name.hash # NoHash

\* the copied static-assets tree: the files of app/public the copy keeps
StaticTree == { FileName(p.dir, p.base, NoHash, "") : p \in { q \in public : q.base # ".DS_Store" } }

\* the output set with the given script bundles, one stylesheet, one HTML
\* file and the static tree
OutputSet(fs, scripts) ==
  /\ WellNamed(fs)
  /\ Cardinality(Scripts(fs)) = Cardinality(scripts)
  /\ { f.name.base : f \in Scripts(fs) } = scripts
  /\ Cardinality(Stylesheets(fs)) = 1
  /\ Cardinality(Htmls(fs)) = 1
  /\ Names(Statics(fs)) = StaticTree

C2_CleanBeforeWrites ==
  \A i \in 1..Len(iolog) :
    /\ iolog[i] = "write" => (i > 1 /\ iolog[1] = "clean")
    /\ iolog[i] = "clean" => i = 1

C2_Witness ==
  /\ pc = "write"
  /\ Len(iolog) >= 3
  /\ iolog[1] = "clean"
  /\ iolog[Len(iolog)] = "write"

\* C3: after every successful build BUILD holds exactly the files of that
\* build; no bundle of an earlier build under another hash is left.
C3_OnlyLatestFiles ==
  Succeeded =>
    /\ disk = assets
    /\ \A f \in disk : IsBundle(f) =>
         f.name.hash = ChunkHash(f.name.base, chunks[f.name.base])

\* a second build after an edit: every bundle name of the earlier build
\* whose hash changed is gone
C3_Witness ==
  /\ Succeeded
  /\ last.prev.valid
  /\ last.cur.valid
  /\ last.prev.ver # last.cur.ver
  /\ \E g \in last.prev.out : g.name \notin Names(disk)

\* C4: the HTML file is generated when every chunk's hashed file name is
\* known, and it references exactly the script and stylesheet files of the
\* run: those staged for emit and, when the run is over, those in BUILD.
C4_HtmlReferences ==
  /\ \A h \in Htmls(assets) :
       /\ h.refs = { g.name : g \in { f \in assets : IsBundle(f) } }
       /\ \A c \in DOMAIN chunks :
            OutputFilename(c, ChunkHash(c, chunks[c])) \in h.refs
  /\ pc = "done" =>
       \A h \in Htmls(disk) :
         h.refs = { g.name : g \in { f \in disk : IsBundle(f) } }

C4_Witness ==
  /\ pc = "done"
  /\ \E h \in Htmls(disk) :
       /\ Cardinality(h.refs) = 5
       /\ \E n \in h.refs : n.ext = "css"

\* no file operation of this run has written into BUILD
NothingWritten == \A i \in 1..Len(iolog) : iolog[i] # "write"

\* C5 as stated: a run that ends with an error leaves BUILD either with the
\* complete output set or with no file written by that run.
C5_NoPartialOutput ==
  (Resting /\ errors # {}) =>
    \/ NothingWritten
    \/ OutputSet(disk, {"app", "style", "vendor", "manifest"})

\* an entry of the running build requests a file that is not there
EntryMissing ==
  /\ ~Resting
  /\ \E e \in EntryNames : entry[e] \cap Missing # {}

\* C6 as stated, for a run that starts with the output of an earlier build
\* in BUILD: when an entry file or a vendor module is missing, the run does
\* no file operation on BUILD: nothing is deleted, nothing is written.
C6_FailsBeforeIO ==
  (EntryMissing /\ last.prev.valid) => iolog = << >>

\* two builds without errors, one after the other
TwoBuilds == last.prev.valid /\ last.cur.valid

SameSource == last.prev.ver = last.cur.ver /\ last.prev.appCss = last.cur.appCss

VendorBundle(fs) == { f \in fs : IsScript(f) /\ f.name.base = "vendor" }

\* C9 as stated: between two successful builds that differ in application
\* source only, the vendor bundle keeps its file name and content, and the
\* application bundle holds no module that only the vendor entry reaches.
C9_VendorUntouched ==
  (TwoBuilds /\ last.prev.ver.vendor = last.cur.ver.vendor
             /\ last.prev.ver.style = last.cur.ver.style) =>
    /\ VendorBundle(last.cur.out) = VendorBundle(last.prev.out)
    /\ \A f \in Scripts(last.cur.out) : f.name.base = "app" =>
         \A t \in f.content : t.m \notin (PACKAGE \ AppImportsIf(last.cur.appCss))

\* C10: after every successful build no .DS_Store file is anywhere in
\* BUILD, and every other file of app/public is in BUILD under its
\* relative path.
C10_StaticCopy ==
  Succeeded =>
    /\ \A f \in disk : f.name.base # ".DS_Store"
    /\ \A p \in public :
         p.base # ".DS_Store" => FileName(p.dir, p.base, NoHash, "") \in Names(disk)

C10_Witness ==
  /\ Succeeded
  /\ \E p \in public : p.base = ".DS_Store" /\ Len(p.dir) = 2
  /\ \E p \in public : p.base = ".DS_Store" /\ p.dir = << >>
  /\ \E f \in disk : f.name.base = "logo.png" /\ f.name.dir = <<"img">>

\* ------------------------------------------------------------------ C11
IsPrefix(a, b) == Len(a) <= Len(b) /\ SubSeq(b, 1, Len(a)) = a

ClaimedOrder == << "clean", "transform", "split", "inject", "minify", "html", "copy" >>

ActualOrder == << "clean", "transform", "inject", "split", "minify", "copy", "html" >>

C12_MinifyFailureAborts ==
  "UglifyError" \in errors =>
    /\ Htmls(assets) = {}
    /\ Htmls(disk) = {}
    /\ pc # "write"

\* ------------------------------------------------------------------ C13
\* the clean of this run is over and nothing has been written since
JustCleaned == cleanSaw # "none" /\ pc \in {"apply", "make", "split", "render", "minify", "emit"}

C14_VendorList ==
  [][ /\ (Resting /\ pc' = "apply") =>
            /\ entry'.vendor = deps
            /\ Len(pkg') = Cardinality(deps)
      /\ ~Resting => pkg' = pkg /\ entry'.vendor = entry.vendor ]_vars

C14_Witness ==
  /\ pc = "write"
  /\ Len(pkg) = Cardinality(Packages)
  /\ entry.vendor = Packages
  /\ deps # Packages

\* ------------------------------------------------------------------ C15
ChainOrder == << "postcss-easy-import", "precss", "autoprefixer", "css", "extract" >>

\* C15: every stylesheet module goes through import inlining, the
\* preprocessor, vendor prefixing and extraction in that order, extraction
\* last, so that the text of a stylesheet file has the rules of the inlined
\* files in it, every rule prefixed, and no script bundle carries
\* stylesheet text to inject at runtime.
C15_StylesheetChain ==
  /\ \A m \in DOMAIN styles :
        /\ IsPrefix(styles[m].steps, ChainOrder)
        /\ "style" \notin { styles[m].steps[i] : i \in 1..Len(styles[m].steps) }
  /\ \A f \in Stylesheets(assets) : \A t \in f.content :
        /\ t.m \in DOMAIN styles
        /\ styles[t.m].steps = ChainOrder
        /\ styles[t.m].imports = {}
        /\ { r.file : r \in styles[t.m].rules } = {t.m, "partial.css"}
        /\ \A r \in styles[t.m].rules : r.expanded /\ r.prefixed
  /\ \A f \in Scripts(assets) : \A t \in f.content : t.k # "css"

C15_Witness ==
  /\ Succeeded
  /\ Stylesheets(disk) # {}
  /\ Stylesheets(disk) = Stylesheets(assets)
  /\ "style.css" \in DOMAIN styles
  /\ styles["style.css"].steps = ChainOrder

====
